---- MODULE Spec2Model ----
(***************************************************************************)
(* A model of src/dashboard.js: the helpers (indexBy, escapeHTML,          *)
(* formatTRY, groupCount, groupSum, getParam, setText, setHTML) and the    *)
(* six page render functions (initDashboard, loadOrdersTable,              *)
(* loadOrderDetail, loadServiceDashboard, loadServiceRequestsTable,        *)
(* loadServiceDetail) with their dataset fetches.                          *)
(*                                                                         *)
(* Representation of JavaScript strings.  A string is a sequence of        *)
(* pieces.  A piece is one character (the five reserved characters, the    *)
(* digits and punctuation are always single pieces), a word (a run of      *)
(* letters, kept whole), or a run of template text copied verbatim from a  *)
(* template literal of the source.  Characters outside ASCII are written   *)
(* by name: "[lira]" is the lira sign printed by Intl.NumberFormat,        *)
(* "[mdash]" and "[times]" are the dash and the multiplication sign of     *)
(* the templates.  Whitespace that only indents a template is dropped.     *)
(***************************************************************************)
EXTENDS Integers, Sequences, FiniteSets, TLC

(***************************************************************************)
(* JavaScript values.  Scalars are records [t, n, s]; a dataset record     *)
(* (a parsed JSON object) is a TLA+ record of its fields.                  *)
(***************************************************************************)
Undef == [t |-> "undef", n |-> 0, s |-> <<>>]
Null == [t |-> "null", n |-> 0, s |-> <<>>]
NaN == [t |-> "nan", n |-> 0, s |-> <<>>]
Num(n) == [t |-> "num", n |-> n, s |-> <<>>]
Str(s) == [t |-> "str", n |-> 0, s |-> s]
\* a member inherited from Object.prototype (a built-in function), by name
Fn(name) == [t |-> "fn", n |-> 0, s |-> name]

IsObject(v) == "t" \notin DOMAIN v

\* the names every plain object inherits from Object.prototype that the
\* model's inputs can spell
ObjectPrototypeKeys == { <<"constructor">>, <<"toString">> }

DigitChars == <<"0", "1", "2", "3", "4", "5", "6", "7", "8", "9">>
DigitSet == { DigitChars[i] : i \in 1..10 }
DigitVal(c) == (CHOOSE i \in 1..10 : DigitChars[i] = c) - 1

RECURSIVE Digits(_)
\* Number::toString of a non-negative integer
Digits(n) == IF n < 10 THEN << DigitChars[n + 1] >>
             ELSE Digits(n \div 10) \o << DigitChars[(n % 10) + 1] >>

\* ToString, as applied by a template literal `${v}` and by String(v)
ToStr(v) ==
  IF IsObject(v) THEN << "[object Object]" >>
  ELSE CASE v.t = "num" -> Digits(v.n)
         [] v.t = "str" -> v.s
         [] v.t = "undef" -> << "undefined" >>
         [] v.t = "null" -> << "null" >>
         [] v.t = "nan" -> << "NaN" >>
         [] v.t = "fn" -> << "function " >> \o v.s \o << "() { [native code] }" >>

\* ToBoolean
Truthy(v) ==
  IF IsObject(v) THEN TRUE
  ELSE CASE v.t = "num" -> v.n # 0
         [] v.t = "str" -> v.s # <<>>
         [] v.t = "fn" -> TRUE
         [] OTHER -> FALSE

\* the binary + of JavaScript on the values the reducers meet
Plus(a, b) ==
  IF IsObject(a) \/ IsObject(b) THEN Str(ToStr(a) \o ToStr(b))
  ELSE IF a.t \in {"str", "fn"} \/ b.t \in {"str", "fn"} THEN Str(ToStr(a) \o ToStr(b))
  ELSE IF a.t = "num" /\ b.t = "num" THEN Num(a.n + b.n)
  ELSE IF a.t = "null" /\ b.t = "num" THEN b
  ELSE IF a.t = "num" /\ b.t = "null" THEN a
  ELSE NaN

\* a || b
OrElse(a, b) == IF Truthy(a) THEN a ELSE b

\* item[key] on a dataset record
Field(item, key) == IF key \in DOMAIN item THEN item[key] ELSE Undef

(***************************************************************************)
(* Plain objects used as maps ({} in indexBy, groupCount, groupSum).  An   *)
(* object is the sequence of its own properties [k, v] in creation order;  *)
(* a property key is the string ToStr gives for the value used as key.     *)
(***************************************************************************)
EmptyObject == <<>>

HasOwn(o, k) == \E i \in 1..Len(o) : o[i].k = k

\* o[k]: own property, else the member inherited from Object.prototype
ObjGet(o, k) ==
  IF HasOwn(o, k) THEN o[CHOOSE i \in 1..Len(o) : o[i].k = k].v
  ELSE IF k \in ObjectPrototypeKeys THEN Fn(k)
  ELSE Undef

\* o[k] = v
ObjSet(o, k, v) ==
  IF HasOwn(o, k)
  THEN [i \in 1..Len(o) |-> IF o[i].k = k THEN [k |-> k, v |-> v] ELSE o[i]]
  ELSE Append(o, [k |-> k, v |-> v])

\* a canonical array index: the decimal spelling of a non-negative integer
IsArrayIndex(k) ==
  /\ Len(k) >= 1
  /\ \A i \in 1..Len(k) : k[i] \in DigitSet
  /\ (Len(k) > 1 => k[1] # "0")

RECURSIVE DigitsValue(_)
DigitsValue(k) ==
  IF k = <<>> THEN 0
  ELSE 10 * DigitsValue(SubSeq(k, 1, Len(k) - 1)) + DigitVal(k[Len(k)])

RECURSIVE SelectEntries(_, _)
SelectEntries(o, indexKeys) ==
  IF o = <<>> THEN <<>>
  ELSE IF IsArrayIndex(Head(o).k) = indexKeys
       THEN << Head(o) >> \o SelectEntries(Tail(o), indexKeys)
       ELSE SelectEntries(Tail(o), indexKeys)

RECURSIVE SortByIndex(_)
SortByIndex(es) ==
  IF es = <<>> THEN <<>>
  ELSE LET m == CHOOSE i \in 1..Len(es) :
                  \A j \in 1..Len(es) : DigitsValue(es[i].k) <= DigitsValue(es[j].k)
       IN << es[m] >> \o
          SortByIndex([j \in 1..(Len(es) - 1) |-> IF j < m THEN es[j] ELSE es[j + 1]])

\* Object.entries(o): array-index keys first in ascending numeric order,
\* then the other string keys in creation order (OrdinaryOwnPropertyKeys)
ObjectEntries(o) ==
  SortByIndex(SelectEntries(o, TRUE)) \o SelectEntries(o, FALSE)

(***************************************************************************)
(* Helpers of the source                                                   *)
(***************************************************************************)
RECURSIVE indexByFrom(_, _, _)
indexByFrom(acc, items, key) ==
  IF items = <<>> THEN acc
  ELSE indexByFrom(ObjSet(acc, ToStr(Field(Head(items), key)), Head(items)),
                   Tail(items), key)

indexBy(items, key) == indexByFrom(EmptyObject, items, key)

RECURSIVE ReplaceAll(_, _, _)
ReplaceAll(s, ch, rep) ==
  IF s = <<>> THEN <<>>
  ELSE (IF Head(s) = ch THEN rep ELSE << Head(s) >>) \o ReplaceAll(Tail(s), ch, rep)

escapeHTML(v) ==
  LET s0 == IF (~IsObject(v)) /\ v.t \in {"undef", "null"} THEN <<>> ELSE ToStr(v)
      s1 == ReplaceAll(s0, "&", << "&", "amp", ";" >>)
      s2 == ReplaceAll(s1, "<", << "&", "lt", ";" >>)
      s3 == ReplaceAll(s2, ">", << "&", "gt", ";" >>)
      s4 == ReplaceAll(s3, "\"", << "&", "quot", ";" >>)
  IN ReplaceAll(s4, "'", << "&", "#", "0", "3", "9", ";" >>)

RECURSIVE GroupThousands(_)
GroupThousands(d) ==
  IF Len(d) <= 3 THEN d
  ELSE GroupThousands(SubSeq(d, 1, Len(d) - 3)) \o << "." >> \o SubSeq(d, Len(d) - 2, Len(d))

\* Intl.NumberFormat("tr-TR", currency TRY) on a whole amount
formatTRY(v) ==
  IF (~IsObject(v)) /\ v.t = "num"
  THEN << "[lira]" >> \o GroupThousands(Digits(v.n)) \o << ",", "0", "0" >>
  ELSE << "[lira]", "NaN" >>

RECURSIVE groupCountFrom(_, _, _)
groupCountFrom(acc, items, key) ==
  IF items = <<>> THEN acc
  ELSE LET k == ToStr(Field(Head(items), key))
       IN groupCountFrom(ObjSet(acc, k, Plus(OrElse(ObjGet(acc, k), Num(0)), Num(1))),
                         Tail(items), key)

RECURSIVE Reverse(_)
Reverse(q) == IF q = <<>> THEN <<>> ELSE Reverse(Tail(q)) \o << Head(q) >>

\* as groupCount, but folding from the right (reduceRight)
groupCountRight(items, key) == groupCountFrom(EmptyObject, Reverse(items), key)

groupCount(items, key) == groupCountFrom(EmptyObject, items, key)

RECURSIVE groupSumFrom(_, _, _, _)
groupSumFrom(acc, items, key, valueKey) ==
  IF items = <<>> THEN acc
  ELSE LET k == ToStr(Field(Head(items), key))
       IN groupSumFrom(ObjSet(acc, k, Plus(OrElse(ObjGet(acc, k), Num(0)),
                                           Field(Head(items), valueKey))),
                       Tail(items), key, valueKey)

groupSum(items, key, valueKey) == groupSumFrom(EmptyObject, items, key, valueKey)

RECURSIVE LeadingDigits(_)
LeadingDigits(q) ==
  IF q = <<>> \/ Head(q) \notin DigitSet THEN <<>>
  ELSE << Head(q) >> \o LeadingDigits(Tail(q))

\* as ToNumber, but reading the leading digits and ignoring the rest (parseInt)
ToNumberPrefix(v) ==
  IF v = Null \/ LeadingDigits(v.s) = <<>> THEN NaN
  ELSE Num(DigitsValue(LeadingDigits(v.s)))

\* Number(x) for the value getParam returns: null (absent) or a string
ToNumber(v) ==
  IF v = Null THEN Num(0)
  ELSE IF v.s = <<>> THEN Num(0)
  ELSE IF \A i \in 1..Len(v.s) : v.s[i] \in DigitSet THEN Num(DigitsValue(v.s))
  ELSE NaN

\* a === b
StrictEq(a, b) == a = b /\ a # NaN

RECURSIVE Join(_)
\* array.join(""): the concatenation of the fragments
Join(frags) == IF frags = <<>> THEN <<>> ELSE Head(frags) \o Join(Tail(frags))

RECURSIVE Filter(_, _, _)
\* items.filter(x => x[key] === value)
Filter(items, key, value) ==
  IF items = <<>> THEN <<>>
  ELSE IF StrictEq(Field(Head(items), key), value)
       THEN << Head(items) >> \o Filter(Tail(items), key, value)
       ELSE Filter(Tail(items), key, value)

\* as Find, but takes the first record whatever its key
FindFirstRecord(items, key, value) ==
  IF items = <<>> THEN Undef ELSE Head(items)

\* items.find(x => x[key] === value): the first match, else undefined
Find(items, key, value) ==
  LET m == Filter(items, key, value) IN IF m = <<>> THEN Undef ELSE Head(m)

RECURSIVE SumField(_, _, _)
\* items.reduce((sum, p) => sum + p[key], start)
SumField(sum, items, key) ==
  IF items = <<>> THEN sum
  ELSE SumField(Plus(sum, Field(Head(items), key)), Tail(items), key)

(***************************************************************************)
(* The document and the datasets                                           *)
(***************************************************************************)
VARIABLES
  present,   \* the ids of the container elements the page has
  search,    \* the value of the id query parameter: Null or a string
  calls,     \* the entry points the page invokes
  data,      \* resource |-> the record sequence its JSON file holds
  dom,       \* container id |-> its content
  pc,        \* function |-> where its execution stands
  fetch,     \* function |-> resource |-> state of that loadJSON promise
  input,     \* input of the helper under test
  keyField,  \* the field the helper keys or groups by
  op,        \* the helper last applied
  result     \* the object the helper returned

vars == << present, search, calls, data, dom, pc, fetch, input, keyField, op, result >>
pageVars == << present, search, calls, data, dom, pc, fetch >>
helperVars == << input, keyField, op, result >>

Functions == { "initDashboard", "loadOrdersTable", "loadOrderDetail",
               "loadServiceDashboard", "loadServiceRequestsTable", "loadServiceDetail" }

\* the functions that load through Promise.all
PromiseAllFunctions == Functions \ { "initDashboard" }

Resources == { "orders", "order_items", "payments", "deliveries", "customers",
               "products", "service_requests" }

\* the marker container each function probes first
Marker(f) ==
  CASE f = "initDashboard" -> "totalOrders"
    [] f = "loadOrdersTable" -> "ordersBody"
    [] f = "loadOrderDetail" -> "orderInfo"
    [] f = "loadServiceDashboard" -> "totalServices"
    [] f = "loadServiceRequestsTable" -> "servicesBody"
    [] f = "loadServiceDetail" -> "serviceInfo"

\* the containers each function writes
Containers(f) ==
  CASE f = "initDashboard" -> { "totalOrders", "totalRevenue", "deliveredOrders",
                                "inTransit", "orderStatusList", "paymentMethodList" }
    [] f = "loadOrdersTable" -> { "ordersBody" }
    [] f = "loadOrderDetail" -> { "orderInfo", "itemsList", "paymentInfo", "deliveryInfo" }
    [] f = "loadServiceDashboard" -> { "totalServices", "openServices", "progressServices",
                                       "closedServices", "serviceByProduct" }
    [] f = "loadServiceRequestsTable" -> { "servicesBody" }
    [] f = "loadServiceDetail" -> { "serviceInfo" }

AllContainers == UNION { Containers(f) : f \in Functions }

\* the datasets each function loads, in the order it lists them
Loads(f) ==
  CASE f = "initDashboard" -> << "orders", "payments", "deliveries" >>
    [] f = "loadOrdersTable" -> << "orders", "customers" >>
    [] f = "loadOrderDetail" -> << "orders", "order_items", "payments", "deliveries",
                                   "customers", "products" >>
    [] f = "loadServiceDashboard" -> << "service_requests", "products" >>
    [] f = "loadServiceRequestsTable" -> << "service_requests", "customers", "products" >>
    [] f = "loadServiceDetail" -> << "service_requests", "customers", "products" >>

LoadSet(f) == { Loads(f)[i] : i \in 1..Len(Loads(f)) }

\* the detail functions, which read the id query parameter
ReadsParam(f) == f \in { "loadOrderDetail", "loadServiceDetail" }

\* what a container holds before any render
Prev == << "[previous content]" >>

\* getParam("id")
getParam == search

\* setText(id, value): el.textContent = value, only if the element exists
setText(d, id, value) ==
  IF id \in present THEN [d EXCEPT ![id] = ToStr(value)] ELSE d

\* as setHTML, but without the element check
setHTMLUnchecked(d, id, value) == [d EXCEPT ![id] = value]

\* setHTML(id, value): el.innerHTML = value, only if the element exists
setHTML(d, id, value) ==
  IF id \in present THEN [d EXCEPT ![id] = value] ELSE d

(***************************************************************************)
(* What each render function writes once its datasets are loaded.  Each    *)
(* operator returns the new content of the document.                       *)
(***************************************************************************)
initDashboardRender(orders, payments, deliveries) ==
  LET d1 == setText(dom, "totalOrders", Num(Len(orders)))
      revenue == SumField(Num(0), payments, "Amount")
      d2 == setText(d1, "totalRevenue", Str(formatTRY(revenue)))
      delivered == Len(Filter(orders, "Status", Str(<< "Delivered" >>)))
      d3 == setText(d2, "deliveredOrders", Num(delivered))
      inTransit == Len(Filter(deliveries, "Status", Str(<< "In Transit" >>)))
      d4 == setText(d3, "inTransit", Num(inTransit))
      orderStatusCounts == ObjectEntries(groupCount(orders, "Status"))
      statusItem(e) == << "<li>" >> \o escapeHTML(Str(e.k)) \o << ": <strong>" >>
                       \o ToStr(e.v) \o << "</strong></li>" >>
      d5 == IF "orderStatusList" \in present
            THEN [d4 EXCEPT !["orderStatusList"] =
                    Join([i \in 1..Len(orderStatusCounts) |-> statusItem(orderStatusCounts[i])])]
            ELSE d4
      paymentSums == ObjectEntries(groupSum(payments, "PaymentMethod", "Amount"))
      methodItem(e) == << "<li>" >> \o escapeHTML(Str(e.k)) \o << ": <strong>" >>
                       \o formatTRY(e.v) \o << "</strong></li>" >>
  IN IF "paymentMethodList" \in present
     THEN [d5 EXCEPT !["paymentMethodList"] =
             Join([i \in 1..Len(paymentSums) |-> methodItem(paymentSums[i])])]
     ELSE d5

loadOrdersTableRender(orders, customers) ==
  LET customerById == indexBy(customers, "CustomerID")
      row(o) ==
        LET c == ObjGet(customerById, ToStr(Field(o, "CustomerID")))
            customerLabel ==
              IF Truthy(c)
              THEN escapeHTML(Field(c, "CustomerName")) \o << " (" >>
                   \o escapeHTML(Field(c, "City")) \o << ")" >>
              ELSE << "#" >> \o ToStr(Field(o, "CustomerID"))
        IN << "<tr onclick=\"location.href='order.html?id=" >> \o ToStr(Field(o, "OrderID"))
           \o << "'\">", "<td>" >> \o ToStr(Field(o, "OrderID"))
           \o << "</td>", "<td>" >> \o customerLabel
           \o << "</td>", "<td>", "#" >> \o ToStr(Field(o, "StoreID"))
           \o << "</td>", "<td>" >> \o ToStr(Field(o, "OrderDate"))
           \o << "</td>", "<td>" >> \o escapeHTML(Field(o, "Status"))
           \o << "</td>", "<td class=\"right\">" >> \o formatTRY(Field(o, "TotalAmount"))
           \o << "</td>", "</tr>" >>
  IN [dom EXCEPT !["ordersBody"] = Join([i \in 1..Len(orders) |-> row(orders[i])])]

\* the order loadOrderDetail shows: orders.find(o => o.OrderID === orderId)
OrderShown(orders) == Find(orders, "OrderID", ToNumber(getParam))

loadOrderDetailRender(orders, orderItems0, payments, deliveries, customers, products) ==
  LET orderId == ToNumber(getParam)
      customerById == indexBy(customers, "CustomerID")
      productById == indexBy(products, "ProductID")
      order == OrderShown(orders)
      c == ObjGet(customerById, ToStr(Field(order, "CustomerID")))
      customerLabel ==
        IF Truthy(c)
        THEN escapeHTML(Field(c, "CustomerName")) \o << " (" >>
             \o escapeHTML(Field(c, "City")) \o << ")" >>
        ELSE << "#" >> \o ToStr(Field(order, "CustomerID"))
      d1 == setHTML(dom, "orderInfo",
              << "<h3>Order #" >> \o ToStr(Field(order, "OrderID"))
              \o << "</h3>", "<p>Status: <strong>" >> \o escapeHTML(Field(order, "Status"))
              \o << "</strong></p>", "<p>Customer: " >> \o customerLabel
              \o << "</p>", "<p>Total: <strong>" >> \o formatTRY(Field(order, "TotalAmount"))
              \o << "</strong></p>" >>)
      orderItems == Filter(orderItems0, "OrderID", orderId)
      itemLine(i) ==
        LET p == ObjGet(productById, ToStr(Field(i, "ProductID")))
            prodLabel ==
              IF Truthy(p)
              THEN escapeHTML(Field(p, "Brand")) \o << " " >> \o escapeHTML(Field(p, "Model"))
                   \o << " (ID " >> \o ToStr(Field(i, "ProductID")) \o << ")" >>
              ELSE << "Product " >> \o ToStr(Field(i, "ProductID"))
        IN << "<li>" >> \o prodLabel \o << " [mdash] " >> \o ToStr(Field(i, "Quantity"))
           \o << " [times] " >> \o formatTRY(Field(i, "UnitPrice")) \o << "</li>" >>
      d2 == IF "itemsList" \in present
            THEN [d1 EXCEPT !["itemsList"] =
                    Join([i \in 1..Len(orderItems) |-> itemLine(orderItems[i])])]
            ELSE d1
      payment == Find(payments, "OrderID", orderId)
      d3 == setHTML(d2, "paymentInfo",
              IF Truthy(payment)
              THEN << "<h3>Payment</h3>", "<p>" >> \o escapeHTML(Field(payment, "PaymentMethod"))
                   \o << " [mdash] " >> \o formatTRY(Field(payment, "Amount")) \o << "</p>" >>
              ELSE << "<h3>Payment</h3>", "<p class=\"muted\">", "No payment record", "</p>" >>)
      delivery == Find(deliveries, "OrderID", orderId)
  IN IF ~Truthy(order) THEN dom
     ELSE setHTML(d3, "deliveryInfo",
            IF Truthy(delivery)
            THEN << "<h3>Delivery</h3>", "<p>" >>
                 \o escapeHTML(Field(delivery, "ShippingCompany"))
                 \o << "</p>", "<p>Tracking: " >> \o escapeHTML(Field(delivery, "TrackingNumber"))
                 \o << "</p>", "<p>Status: " >> \o escapeHTML(Field(delivery, "Status"))
                 \o << "</p>" >>
            ELSE << "<h3>Delivery</h3>", "<p class=\"muted\">", "No delivery record", "</p>" >>)

loadServiceDashboardRender(services, products) ==
  LET productById == indexBy(products, "ProductID")
      d1 == setText(dom, "totalServices", Num(Len(services)))
      d2 == setText(d1, "openServices", Num(Len(Filter(services, "Status", Str(<< "Open" >>)))))
      d3 == setText(d2, "progressServices",
                    Num(Len(Filter(services, "Status", Str(<< "In Progress" >>)))))
      d4 == setText(d3, "closedServices",
                    Num(Len(Filter(services, "Status", Str(<< "Closed" >>)))))
      byProduct == ObjectEntries(groupCountFrom(EmptyObject, services, "ProductID"))
      line(e) ==
        LET p == ObjGet(productById, ToStr(ToNumber(Str(e.k))))
            label ==
              IF Truthy(p)
              THEN escapeHTML(Field(p, "Brand")) \o << " " >> \o escapeHTML(Field(p, "Model"))
                   \o << " (ID " >> \o e.k \o << ")" >>
              ELSE << "Product ", "#" >> \o e.k
        IN << "<li>" >> \o label \o << ": <strong>" >> \o ToStr(e.v)
           \o << "</strong> request(s)</li>" >>
  IN IF "serviceByProduct" \in present
     THEN [d4 EXCEPT !["serviceByProduct"] =
             Join([i \in 1..Len(byProduct) |-> line(byProduct[i])])]
     ELSE d4

loadServiceRequestsTableRender(services, customers, products) ==
  LET customerById == indexBy(customers, "CustomerID")
      productById == indexBy(products, "ProductID")
      row(s) ==
        LET c == ObjGet(customerById, ToStr(Field(s, "CustomerID")))
            p == ObjGet(productById, ToStr(Field(s, "ProductID")))
            customerLabel == IF Truthy(c) THEN escapeHTML(Field(c, "CustomerName"))
                             ELSE << "#" >> \o ToStr(Field(s, "CustomerID"))
            productLabel ==
              IF Truthy(p)
              THEN escapeHTML(Field(p, "Brand")) \o << " " >> \o escapeHTML(Field(p, "Model"))
              ELSE << "#" >> \o ToStr(Field(s, "ProductID"))
        IN << "<tr onclick=\"location.href='service.html?id=" >>
           \o ToStr(Field(s, "ServiceID"))
           \o << "'\">", "<td>" >> \o ToStr(Field(s, "ServiceID"))
           \o << "</td>", "<td>" >> \o customerLabel
           \o << "</td>", "<td>" >> \o productLabel
           \o << "</td>", "<td>" >> \o ToStr(Field(s, "RequestDate"))
           \o << "</td>", "<td>" >> \o escapeHTML(Field(s, "Status"))
           \o << "</td>", "</tr>" >>
  IN [dom EXCEPT !["servicesBody"] = Join([i \in 1..Len(services) |-> row(services[i])])]

\* the request loadServiceDetail shows: services.find(x => x.ServiceID === id)
ServiceShown(services) == Find(services, "ServiceID", ToNumber(getParam))

loadServiceDetailRender(services, customers, products) ==
  LET customerById == indexBy(customers, "CustomerID")
      productById == indexBy(products, "ProductID")
      s == ServiceShown(services)
      c == ObjGet(customerById, ToStr(Field(s, "CustomerID")))
      p == ObjGet(productById, ToStr(Field(s, "ProductID")))
      customerLabel ==
        IF Truthy(c)
        THEN escapeHTML(Field(c, "CustomerName")) \o << " (" >>
             \o escapeHTML(Field(c, "City")) \o << ")" >>
        ELSE << "#" >> \o ToStr(Field(s, "CustomerID"))
      productLabel ==
        IF Truthy(p)
        THEN escapeHTML(Field(p, "Brand")) \o << " " >> \o escapeHTML(Field(p, "Model"))
             \o << " (Warranty: " >> \o ToStr(Field(p, "WarrantyPeriod")) \o << " mo)" >>
        ELSE << "#" >> \o ToStr(Field(s, "ProductID"))
  IN IF ~Truthy(s) THEN dom
     ELSE setHTML(dom, "serviceInfo",
            << "<h3>Service Request #" >> \o ToStr(Field(s, "ServiceID"))
            \o << "</h3>", "<p>Status: <strong>" >> \o escapeHTML(Field(s, "Status"))
            \o << "</strong></p>", "<p>Customer: " >> \o customerLabel
            \o << "</p>", "<p>Product: " >> \o productLabel
            \o << "</p>", "<p>Date: " >> \o ToStr(Field(s, "RequestDate"))
            \o << "</p>", "<h4 style=\"margin-top:14px;\">Issue Description</h4>", "<p>" >>
            \o escapeHTML(Field(s, "IssueDescription")) \o << "</p>" >>)

(***************************************************************************)
(* Execution of the render functions.  pc[f] is "idle" before the call,    *)
(* "await_orders" / "await_payments" / "await_deliveries" while            *)
(* initDashboard is suspended at one of its three awaits, "waiting" while  *)
(* a function is suspended at its Promise.all, "done" once it returned     *)
(* and "rejected" once it ended with an unhandled rejection.               *)
(* fetch[f][r] is the state of the loadJSON promise of f for resource r:   *)
(* "idle" (not issued), "pending", "ok" or "failed".                       *)
(***************************************************************************)
NoFetch == [r \in Resources |-> "idle"]

\* as AllResolved, but satisfied as soon as every promise has settled
AllSettled(f) == \A r \in LoadSet(f) : fetch[f][r] \in { "ok", "failed" }

\* Promise.all fulfils: every promise of the function fulfilled
AllResolved(f) == \A r \in LoadSet(f) : fetch[f][r] = "ok"

\* Promise.all rejects: some promise of the function rejected
SomeRejected(f) == \E r \in LoadSet(f) : fetch[f][r] = "failed"

\* the resource initDashboard is awaiting at each of its suspension points
Awaited(p) ==
  CASE p = "await_orders" -> "orders"
    [] p = "await_payments" -> "payments"
    [] p = "await_deliveries" -> "deliveries"

\* initDashboard() up to its first await
initDashboardCall ==
  /\ "initDashboard" \in calls
  /\ pc["initDashboard"] = "idle"
  /\ IF "totalOrders" \notin present
     THEN /\ pc' = [pc EXCEPT !["initDashboard"] = "done"]
          /\ UNCHANGED fetch
     ELSE /\ pc' = [pc EXCEPT !["initDashboard"] = "await_orders"]
          /\ fetch' = [fetch EXCEPT !["initDashboard"]["orders"] = "pending"]
  /\ UNCHANGED << present, search, calls, data, dom, helperVars >>

\* initDashboard resumes after orders or payments loaded and issues the next fetch
initDashboardNext ==
  /\ pc["initDashboard"] \in { "await_orders", "await_payments" }
  /\ fetch["initDashboard"][Awaited(pc["initDashboard"])] = "ok"
  /\ IF pc["initDashboard"] = "await_orders"
     THEN /\ pc' = [pc EXCEPT !["initDashboard"] = "await_payments"]
          /\ fetch' = [fetch EXCEPT !["initDashboard"]["payments"] = "pending"]
     ELSE /\ pc' = [pc EXCEPT !["initDashboard"] = "await_deliveries"]
          /\ fetch' = [fetch EXCEPT !["initDashboard"]["deliveries"] = "pending"]
  /\ UNCHANGED << present, search, calls, data, dom, helperVars >>

\* initDashboard resumes after deliveries loaded and renders
initDashboardResume ==
  /\ pc["initDashboard"] = "await_deliveries"
  /\ fetch["initDashboard"]["deliveries"] = "ok"
  /\ dom' = initDashboardRender(data["orders"], data["payments"], data["deliveries"])
  /\ pc' = [pc EXCEPT !["initDashboard"] = "done"]
  /\ UNCHANGED << present, search, calls, data, fetch, helperVars >>

\* the awaited loadJSON of initDashboard rejected: the function ends rejected
initDashboardReject ==
  /\ pc["initDashboard"] \in { "await_orders", "await_payments", "await_deliveries" }
  /\ fetch["initDashboard"][Awaited(pc["initDashboard"])] = "failed"
  /\ pc' = [pc EXCEPT !["initDashboard"] = "rejected"]
  /\ UNCHANGED << present, search, calls, data, dom, fetch, helperVars >>

\* a function that loads through Promise.all, up to its await
Call(f) ==
  /\ f \in PromiseAllFunctions
  /\ f \in calls
  /\ pc[f] = "idle"
  /\ IF Marker(f) \notin present
     THEN /\ pc' = [pc EXCEPT ![f] = "done"]
          /\ UNCHANGED fetch
     ELSE IF ReadsParam(f) /\ ~Truthy(ToNumber(getParam))
     THEN /\ pc' = [pc EXCEPT ![f] = "done"]
          /\ UNCHANGED fetch
     ELSE /\ pc' = [pc EXCEPT ![f] = "waiting"]
          /\ fetch' = [fetch EXCEPT ![f] =
                         [r \in Resources |-> IF r \in LoadSet(f) THEN "pending" ELSE "idle"]]
  /\ UNCHANGED << present, search, calls, data, dom, helperVars >>

\* loadJSON(path) fulfils with the parsed records
loadJSONResolve(f, r) ==
  /\ fetch[f][r] = "pending"
  /\ fetch' = [fetch EXCEPT ![f][r] = "ok"]
  /\ UNCHANGED << present, search, calls, data, dom, pc, helperVars >>

\* loadJSON(path) rejects: fetch failed or the body did not parse
loadJSONReject(f, r) ==
  /\ fetch[f][r] = "pending"
  /\ fetch' = [fetch EXCEPT ![f][r] = "failed"]
  /\ UNCHANGED << present, search, calls, data, dom, pc, helperVars >>

\* the Promise.all a function awaits rejected: the function ends rejected
PromiseAllReject(f) ==
  /\ f \in PromiseAllFunctions
  /\ pc[f] = "waiting"
  /\ SomeRejected(f)
  /\ pc' = [pc EXCEPT ![f] = "rejected"]
  /\ UNCHANGED << present, search, calls, data, dom, fetch, helperVars >>

\* loadOrdersTable resumes once Promise.all fulfilled and renders
loadOrdersTable ==
  /\ pc["loadOrdersTable"] = "waiting"
  /\ AllResolved("loadOrdersTable")
  /\ dom' = loadOrdersTableRender(data["orders"], data["customers"])
  /\ pc' = [pc EXCEPT !["loadOrdersTable"] = "done"]
  /\ UNCHANGED << present, search, calls, data, fetch, helperVars >>

\* loadOrderDetail resumes once Promise.all fulfilled and renders
loadOrderDetail ==
  /\ pc["loadOrderDetail"] = "waiting"
  /\ AllResolved("loadOrderDetail")
  /\ dom' = loadOrderDetailRender(data["orders"], data["order_items"], data["payments"],
                                 data["deliveries"], data["customers"], data["products"])
  /\ pc' = [pc EXCEPT !["loadOrderDetail"] = "done"]
  /\ UNCHANGED << present, search, calls, data, fetch, helperVars >>

\* loadServiceDashboard resumes once Promise.all fulfilled and renders
loadServiceDashboard ==
  /\ pc["loadServiceDashboard"] = "waiting"
  /\ AllResolved("loadServiceDashboard")
  /\ dom' = loadServiceDashboardRender(data["service_requests"], data["products"])
  /\ pc' = [pc EXCEPT !["loadServiceDashboard"] = "done"]
  /\ UNCHANGED << present, search, calls, data, fetch, helperVars >>

\* loadServiceRequestsTable resumes once Promise.all fulfilled and renders
loadServiceRequestsTable ==
  /\ pc["loadServiceRequestsTable"] = "waiting"
  /\ AllResolved("loadServiceRequestsTable")
  /\ dom' = loadServiceRequestsTableRender(data["service_requests"], data["customers"],
                                          data["products"])
  /\ pc' = [pc EXCEPT !["loadServiceRequestsTable"] = "done"]
  /\ UNCHANGED << present, search, calls, data, fetch, helperVars >>

\* loadServiceDetail resumes once Promise.all fulfilled and renders
loadServiceDetail ==
  /\ pc["loadServiceDetail"] = "waiting"
  /\ AllResolved("loadServiceDetail")
  /\ dom' = loadServiceDetailRender(data["service_requests"], data["customers"],
                                   data["products"])
  /\ pc' = [pc EXCEPT !["loadServiceDetail"] = "done"]
  /\ UNCHANGED << present, search, calls, data, fetch, helperVars >>

Next ==
  \/ initDashboardCall
  \/ initDashboardNext
  \/ initDashboardResume
  \/ initDashboardReject
  \/ \E f \in PromiseAllFunctions : Call(f)
  \/ \E f \in Functions : \E r \in Resources : loadJSONResolve(f, r)
  \/ \E f \in Functions : \E r \in Resources : loadJSONReject(f, r)
  \/ \E f \in PromiseAllFunctions : PromiseAllReject(f)
  \/ loadOrdersTable
  \/ loadOrderDetail
  \/ loadServiceDashboard
  \/ loadServiceRequestsTable
  \/ loadServiceDetail

(***************************************************************************)
(* The datasets the JSON files hold                                        *)
(***************************************************************************)
Word(w) == Str(<< w >>)
Date1 == Str(<< "2", "0", "2", "4", "-", "0", "1", "-", "0", "5" >>)
Date2 == Str(<< "2", "0", "2", "4", "-", "0", "2", "-", "1", "1" >>)

order1 == [OrderID |-> Num(1), CustomerID |-> Num(5), StoreID |-> Num(3),
           OrderDate |-> Date1, Status |-> Word("Delivered"), TotalAmount |-> Num(100)]
order2 == [OrderID |-> Num(2), CustomerID |-> Num(6), StoreID |-> Num(3),
           OrderDate |-> Date2, Status |-> Word("Pending"), TotalAmount |-> Num(1250)]
item1 == [OrderID |-> Num(1), ProductID |-> Num(7), Quantity |-> Num(2), UnitPrice |-> Num(50)]
item2 == [OrderID |-> Num(2), ProductID |-> Num(7), Quantity |-> Num(1),
          UnitPrice |-> Num(1250)]
pay1 == [OrderID |-> Num(1), PaymentMethod |-> Word("Card"), Amount |-> Num(100)]
pay2 == [OrderID |-> Num(2), PaymentMethod |-> Word("Cash"), Amount |-> Num(1250)]
del1 == [OrderID |-> Num(1), ShippingCompany |-> Word("Aras"),
         TrackingNumber |-> Str(<< "TR", "4", "2" >>), Status |-> Word("In Transit")]
del2 == [OrderID |-> Num(2), ShippingCompany |-> Word("Yurtici"),
         TrackingNumber |-> Str(<< "TR", "4", "3" >>), Status |-> Word("Delivered")]
cust5 == [CustomerID |-> Num(5), CustomerName |-> Word("Ayse"), City |-> Word("Izmir")]
cust6 == [CustomerID |-> Num(6), CustomerName |-> Word("Mehmet"), City |-> Word("Ankara")]
prod7 == [ProductID |-> Num(7), Brand |-> Word("Arcelik"), Model |-> Word("Cooler"),
          WarrantyPeriod |-> Num(24)]
svc1 == [ServiceID |-> Num(1), CustomerID |-> Num(5), ProductID |-> Num(7),
         Status |-> Word("Open"), RequestDate |-> Date1, IssueDescription |-> Word("Leaks")]
svc2 == [ServiceID |-> Num(2), CustomerID |-> Num(6), ProductID |-> Num(4),
         Status |-> Word("Closed"), RequestDate |-> Date2, IssueDescription |-> Word("Noisy")]

\* one consistent demo dataset: order 1 is paid and not yet shipped
FixedData ==
  [orders |-> << order1, order2 >>, order_items |-> << item1, item2 >>,
   payments |-> << pay1 >>, deliveries |-> << del2 >>,
   customers |-> << cust5, cust6 >>, products |-> << prod7 >>,
   service_requests |-> << svc1, svc2 >>]

\* a free-form text carrying a script tag and the other reserved characters
Hostile == Str(<< "<", "script", ">", "&", "\"", "'" >>)

\* the fields of the first record of each dataset that may carry free-form text
TextFields ==
  { << "orders", "OrderID" >>, << "orders", "CustomerID" >>, << "orders", "StoreID" >>,
    << "orders", "OrderDate" >>, << "orders", "Status" >>,
    << "payments", "PaymentMethod" >>,
    << "deliveries", "ShippingCompany" >>, << "deliveries", "TrackingNumber" >>,
    << "deliveries", "Status" >>,
    << "customers", "CustomerName" >>, << "customers", "City" >>,
    << "products", "Brand" >>, << "products", "Model" >>,
    << "service_requests", "ServiceID" >>, << "service_requests", "CustomerID" >>,
    << "service_requests", "ProductID" >>, << "service_requests", "Status" >>,
    << "service_requests", "RequestDate" >>, << "service_requests", "IssueDescription" >> }

\* datasets whose foreign keys may or may not resolve
JoinData ==
  { [FixedData EXCEPT !.customers = cs, !.products = ps,
                      !.orders[1].CustomerID = fk, !.service_requests[1].CustomerID = fk,
                      !.order_items[1].ProductID = pk, !.service_requests[1].ProductID = pk] :
      cs \in { <<>>, << cust5 >>, << cust5, cust6 >> }, ps \in { <<>>, << prod7 >> },
      fk \in { Num(5), Num(9), Word("constructor") }, pk \in { Num(7), Num(9) } }

\* datasets whose orders have, or lack, a payment and a delivery
SectionData ==
  { [FixedData EXCEPT !.payments = ps, !.deliveries = ds] :
      ps \in { <<>>, << pay1 >>, << pay2 >>, << pay2, pay1 >> },
      ds \in { <<>>, << del1 >>, << del2 >>, << del2, del1 >> } }

\* datasets one of whose text fields carries the hostile text
HostileData ==
  { [FixedData EXCEPT ![tf[1]][1][tf[2]] = Hostile] : tf \in TextFields }

DataChoices == JoinData \cup SectionData \cup HostileData

(***************************************************************************)
(* The pages.  A scenario is a document (the containers it has), the id    *)
(* query parameter of its URL and the entry points its scripts invoke;     *)
(* initDashboard is invoked by the bundle itself on every page.            *)
(***************************************************************************)
ParamChoices ==
  { Null, Str(<<>>), Word("abc"), Str(<< "1", "x" >>), Str(<< "0" >>),
    Str(<< "1" >>), Str(<< "2" >>), Str(<< "8" >>), Str(<< "0", "1" >>) }

Scenarios ==
  { [present |-> {}, search |-> q, calls |-> Functions] : q \in { Null, Str(<< "1" >>) } }
  \cup { [present |-> Containers("loadOrdersTable"), search |-> Null, calls |-> Functions] }
  \cup UNION { { [present |-> Containers(f), search |-> q,
                  calls |-> { "initDashboard", f }] :
                   q \in IF ReadsParam(f) THEN ParamChoices ELSE { Null } } : f \in Functions }
  \cup UNION { { [present |-> Containers(f) \ { c }, search |-> Str(<< "1" >>),
                  calls |-> { "initDashboard", f }] : c \in Containers(f) } : f \in Functions }

InitPage(sc, ds) ==
  /\ present = sc.present
  /\ search = sc.search
  /\ calls = sc.calls
  /\ data = ds
  /\ dom = [c \in AllContainers |-> Prev]
  /\ pc = [f \in Functions |-> "idle"]
  /\ fetch = [f \in Functions |-> NoFetch]
  /\ input = <<>>
  /\ keyField = "K"
  /\ op = "none"
  /\ result = EmptyObject

\* any page of the site over the demo dataset
Init == \E sc \in Scenarios : InitPage(sc, FixedData)

Spec == Init /\ [][Next]_vars

\* each complete page, opened for entity 1, over varying datasets
InitData ==
  \E f \in Functions : \E ds \in DataChoices :
    InitPage([present |-> Containers(f), search |-> Str(<< "1" >>),
              calls |-> { "initDashboard", f }], ds)

SpecData == InitData /\ [][Next]_vars

(***************************************************************************)
(* The helpers on their own: indexBy, groupCount and groupSum applied to   *)
(* bounded record sequences.  A record has a key / group field K (which    *)
(* may be missing) and a value field V.                                    *)
(***************************************************************************)
MaxLen == 3

KeyChoices ==
  { Num(1), Num(2), Num(10), Str(<< "1" >>), Word("Open"), Word("Closed"),
    Word("constructor") }

ItemChoices ==
  { [K |-> k, V |-> Num(v)] : k \in KeyChoices, v \in { 10, 20 } }
  \cup { [V |-> Num(10)] }

BoundedSeq(S, n) == UNION { [1..m -> S] : m \in 0..n }

InitHelpers ==
  /\ input \in BoundedSeq(ItemChoices, MaxLen)
  /\ keyField = "K"
  /\ op = "none"
  /\ result = EmptyObject
  /\ present = {}
  /\ search = Null
  /\ calls = {}
  /\ data = FixedData
  /\ dom = [c \in AllContainers |-> Prev]
  /\ pc = [f \in Functions |-> "idle"]
  /\ fetch = [f \in Functions |-> NoFetch]

indexByApply ==
  /\ op = "none"
  /\ result' = indexBy(input, keyField)
  /\ op' = "indexBy"
  /\ UNCHANGED << input, keyField, pageVars >>

groupCountApply ==
  /\ op = "none"
  /\ result' = groupCount(input, keyField)
  /\ op' = "groupCount"
  /\ UNCHANGED << input, keyField, pageVars >>

groupSumApply ==
  /\ op = "none"
  /\ result' = groupSum(input, keyField, "V")
  /\ op' = "groupSum"
  /\ UNCHANGED << input, keyField, pageVars >>

NextHelpers == indexByApply \/ groupCountApply \/ groupSumApply

SpecHelpers == InitHelpers /\ [][NextHelpers]_vars

(***************************************************************************)
(* Properties                                                              *)
(***************************************************************************)
Untouched(f) == \A c \in Containers(f) : dom[c] = Prev

\* C1: all-or-nothing render.  A function one of whose dataset fetches
\* rejected has written to none of its containers, in whatever order the
\* fetches complete or fail.
C1_AllOrNothing == \A f \in Functions : SomeRejected(f) => Untouched(f)

\* a Promise.all function ended rejected after some of its fetches fulfilled
C1_Witness ==
  /\ pc["loadOrderDetail"] = "rejected"
  /\ \E r \in LoadSet("loadOrderDetail") : fetch["loadOrderDetail"][r] = "ok"
  /\ \A r \in LoadSet("loadOrderDetail") : fetch["loadOrderDetail"][r] # "pending"

Settled(f) == { r \in LoadSet(f) : fetch[f][r] \in { "ok", "failed" } }

\* C2: concurrent fan-out.  Once any fetch of a function has completed,
\* every fetch of that function has been issued: no fetch is started only
\* after another fetch of the same page resolved.
C2_ConcurrentFanOut ==
  \A f \in Functions :
    Settled(f) # {} => \A r \in LoadSet(f) : fetch[f][r] # "idle"

\* the id parameter is absent, empty or holds a character that is no digit
ParamAbsentOrNonNumeric ==
  \/ search = Null
  \/ search.s = <<>>
  \/ \E i \in 1..Len(search.s) : search.s[i] \notin DigitSet

DetailFunctions == { f \in Functions : ReadsParam(f) }

\* C3: missing or invalid route parameter.  A detail function called on its
\* own page with the id parameter absent or non-numeric returns normally,
\* issues no fetch, and leaves every detail container with its previous
\* content.
C3_InvalidParamNoMutation ==
  \A f \in DetailFunctions :
    (Marker(f) \in present /\ ParamAbsentOrNonNumeric /\ pc[f] # "idle") =>
      /\ pc[f] = "done"
      /\ fetch[f] = NoFetch
      /\ \A g \in DetailFunctions : Untouched(g)

\* loadOrderDetail returned on order.html opened with id=1x
C3_Witness ==
  /\ "orderInfo" \in present
  /\ search = Str(<< "1", "x" >>)
  /\ pc["loadOrderDetail"] = "done"

\* the function reached the writes of its render
Rendered(f) ==
  /\ pc[f] = "done"
  /\ Marker(f) \in present
  /\ f = "loadOrderDetail" =>
       \E i \in 1..Len(data["orders"]) :
         data["orders"][i].OrderID = Num(1) /\ search \in { Str(<< "1" >>), Str(<< "0", "1" >>) }
  /\ f = "loadServiceDetail" =>
       \E i \in 1..Len(data["service_requests"]) :
         data["service_requests"][i].ServiceID = Num(1)
           /\ search \in { Str(<< "1" >>), Str(<< "0", "1" >>) }

\* C4: an absent marker container makes the function a silent no-op (no
\* fetch, no write, no error); with the marker present, an absent secondary
\* container is skipped and the containers that exist are still rendered.
C4_AbsentContainers ==
  /\ \A f \in Functions :
       (Marker(f) \notin present /\ pc[f] # "idle") =>
         pc[f] = "done" /\ fetch[f] = NoFetch /\ Untouched(f)
  /\ \A c \in AllContainers : c \notin present => dom[c] = Prev
  /\ \A f \in Functions :
       Rendered(f) => \A c \in Containers(f) \cap present : dom[c] # Prev

\* order.html without its paymentInfo container was rendered, while
\* initDashboard returned on it at once
C4_Witness ==
  /\ present = Containers("loadOrderDetail") \ { "paymentInfo" }
  /\ Rendered("loadOrderDetail")
  /\ dom["deliveryInfo"] # Prev
  /\ pc["initDashboard"] = "done"

\* the fragment holds a literal script tag
ContainsScriptTag(q) ==
  \E i \in 1..(Len(q) - 2) : q[i] = "<" /\ q[i + 1] = "script" /\ q[i + 2] = ">"

\* C5: escaping is total.  No content written by a render function holds a
\* literal script tag, whichever field of the data carried it.
C5_EscapingTotal == \A c \in AllContainers : ~ContainsScriptTag(dom[c])

\* the fragment holds the placeholder #<id> as a whole label: right after
\* the template text that opens the label and right before template text
LabelOpeners == { "<td>", "<p>Customer: ", "<p>Product: ", "<li>" }
LabelClosers == { "</td>", "</p>", " [mdash] ", ": <strong>" }
HasPlaceholder(q, id) ==
  LET lab == << "#" >> \o ToStr(id)
  IN \E i \in 1..Len(q) :
       /\ q[i] \in LabelOpeners
       /\ i + Len(lab) + 1 <= Len(q)
       /\ SubSeq(q, i + 1, i + Len(lab)) = lab
       /\ q[i + Len(lab) + 1] \in LabelClosers

\* no record of the related set carries the key
Unmatched(related, k, id) == \A i \in 1..Len(related) : related[i][k] # id

\* the indexes of the records of a dataset that the page of f displays: the
\* records of entity 1 on a detail page, every record on a list page
Shown(f, primary) ==
  IF f \in { "loadOrderDetail", "loadServiceDetail" }
  THEN { i \in 1..Len(primary) :
           primary[i][IF f = "loadOrderDetail" THEN "OrderID" ELSE "ServiceID"] = Num(1) }
  ELSE 1..Len(primary)

\* C6: joiner fallback.  On every page that joins customers or products, a
\* rendered primary record whose foreign key matches no related record shows
\* the placeholder #<id> for that relation.
C6_JoinerFallback ==
  /\ Rendered("loadOrdersTable") =>
       \A i \in Shown("loadOrdersTable", data["orders"]) :
         Unmatched(data["customers"], "CustomerID", data["orders"][i].CustomerID) =>
           HasPlaceholder(dom["ordersBody"], data["orders"][i].CustomerID)
  /\ Rendered("loadOrderDetail") =>
       /\ \A i \in Shown("loadOrderDetail", data["orders"]) :
            Unmatched(data["customers"], "CustomerID", data["orders"][i].CustomerID) =>
              HasPlaceholder(dom["orderInfo"], data["orders"][i].CustomerID)
       /\ \A i \in Shown("loadOrderDetail", data["order_items"]) :
            Unmatched(data["products"], "ProductID", data["order_items"][i].ProductID) =>
              HasPlaceholder(dom["itemsList"], data["order_items"][i].ProductID)
  /\ Rendered("loadServiceDashboard") =>
       \A i \in Shown("loadServiceDashboard", data["service_requests"]) :
         Unmatched(data["products"], "ProductID", data["service_requests"][i].ProductID) =>
           HasPlaceholder(dom["serviceByProduct"], data["service_requests"][i].ProductID)
  /\ \A f \in { "loadServiceRequestsTable", "loadServiceDetail" } :
       Rendered(f) =>
         \A i \in Shown(f, data["service_requests"]) :
           /\ Unmatched(data["customers"], "CustomerID",
                        data["service_requests"][i].CustomerID) =>
                HasPlaceholder(dom[Marker(f)], data["service_requests"][i].CustomerID)
           /\ Unmatched(data["products"], "ProductID",
                        data["service_requests"][i].ProductID) =>
                HasPlaceholder(dom[Marker(f)], data["service_requests"][i].ProductID)

\* the key field values of the input are pairwise different
UniqueKeys ==
  \A i, j \in 1..Len(input) :
    i # j => Field(input[i], keyField) # Field(input[j], keyField)

\* key values to look up, carried by the input or not
ProbeKeys == KeyChoices \cup { Num(3), Word("Pending"), Word("toString") }

\* C7: primary index round trip.  Over records with unique key values, the
\* index returns for each original key exactly the record that carried it,
\* and undefined for every key value no record carries.
C7_IndexRoundTrip ==
  (op = "indexBy" /\ UniqueKeys) =>
    /\ \A i \in 1..Len(input) :
         ObjGet(result, ToStr(Field(input[i], keyField))) = input[i]
    /\ \A k \in ProbeKeys :
         (\A i \in 1..Len(input) : Field(input[i], keyField) # k) =>
           ObjGet(result, ToStr(k)) = Undef

RECURSIVE FirstAppearance(_, _)
\* the distinct group keys of a record sequence, in order of first appearance
FirstAppearance(seen, q) ==
  IF q = <<>> THEN seen
  ELSE LET k == ToStr(Field(Head(q), keyField))
       IN FirstAppearance(IF \E i \in 1..Len(seen) : seen[i] = k THEN seen
                          ELSE Append(seen, k),
                          Tail(q))

EntryKeys(o) == [i \in 1..Len(ObjectEntries(o)) |-> ObjectEntries(o)[i].k]

Position(q, k) == CHOOSE i \in 1..Len(q) : q[i] = k

RECURSIVE SumValues(_)
\* the counts of a mapping added up as JavaScript adds them
SumValues(o) == IF o = <<>> THEN Num(0) ELSE Plus(SumValues(Tail(o)), Head(o).v)

\* C9: count conservation.  The counts in the mapping returned by
\* groupCount add up to the length of the input sequence.
C9_CountConservation ==
  op = "groupCount" => SumValues(result) = Num(Len(input))

\* the payment and delivery sections loadOrderDetail is to show
PaymentSection(p) ==
  << "<h3>Payment</h3>", "<p>" >> \o escapeHTML(p.PaymentMethod) \o << " [mdash] " >>
  \o formatTRY(p.Amount) \o << "</p>" >>
NoPaymentSection == << "<h3>Payment</h3>", "<p class=\"muted\">", "No payment record", "</p>" >>
DeliverySection(d) ==
  << "<h3>Delivery</h3>", "<p>" >> \o escapeHTML(d.ShippingCompany)
  \o << "</p>", "<p>Tracking: " >> \o escapeHTML(d.TrackingNumber)
  \o << "</p>", "<p>Status: " >> \o escapeHTML(d.Status) \o << "</p>" >>
NoDeliverySection ==
  << "<h3>Delivery</h3>", "<p class=\"muted\">", "No delivery record", "</p>" >>

ForOrder(recs, n) == { i \in 1..Len(recs) : recs[i].OrderID = Num(n) }

\* C10: order detail optional sections.  Once order 1 is rendered, the
\* payment section shows method and formatted amount of a payment of order 1
\* if the payments hold one and the no-payment placeholder otherwise, and
\* independently the delivery section shows a delivery of order 1 or the
\* no-delivery placeholder; a record of another order is never shown.
C10_OptionalSections ==
  Rendered("loadOrderDetail") =>
    /\ IF ForOrder(data["payments"], 1) # {}
       THEN \E i \in ForOrder(data["payments"], 1) :
              dom["paymentInfo"] = PaymentSection(data["payments"][i])
       ELSE dom["paymentInfo"] = NoPaymentSection
    /\ IF ForOrder(data["deliveries"], 1) # {}
       THEN \E i \in ForOrder(data["deliveries"], 1) :
              dom["deliveryInfo"] = DeliverySection(data["deliveries"][i])
       ELSE dom["deliveryInfo"] = NoDeliverySection

\* order 1 rendered with a Card payment of 100 listed after the payment of
\* order 2, and only a delivery of order 2
C10_Witness ==
  /\ Rendered("loadOrderDetail")
  /\ data["payments"] = << pay2, pay1 >>
  /\ data["deliveries"] = << del2 >>
  /\ dom["paymentInfo"] = << "<h3>Payment</h3>", "<p>", "Card", " [mdash] ",
                             "[lira]", "1", "0", "0", ",", "0", "0", "</p>" >>
  /\ dom["deliveryInfo"] = NoDeliverySection

====
